---- MODULE Spec2Model ----
(***************************************************************************)
(* Control-plane synchronisation layer of linien:                          *)
(*   - the remote parameter mirror (linien_client/remote_parameters.py),   *)
(*     checked under the specification Spec;                               *)
(*   - the acquisition supervisor and its worker loop                      *)
(*     (linien_server/acquisition/controller.py), checked under the        *)
(*     specification WorkerSpec (all Commands, the reader thread at rest)  *)
(*     and, with the reader thread running and few Commands, under the     *)
(*     specification ReaderSpec.                                           *)
(* The two halves share nothing but this module.                           *)
(***************************************************************************)
EXTENDS Integers, Sequences, FiniteSets, TLC

(***************************************************************************)
(* Bounds of the model.                                                    *)
(***************************************************************************)
\* longest change batch a get_changed_parameters_queue reply carries
MaxBatch == 2
\* Commands the supervisor's caller issues in one run (the shutdown of the
\* process-exit hook comes on top)
MaxSends == 2
\* frames the worker pushes in one run: the service takes no further
\* measurement once that many were pushed
MaxPushed == 2

(***************************************************************************)
(* The mirror: inputs.                                                     *)
(***************************************************************************)
\* The inventory returned by exposed_init_parameter_sync: one cacheable
\* parameter, one that is not cacheable, one cacheable parameter whose name
\* begins with an underscore.
ParamNames == {"speed", "status", "_aux"}

Cacheable(n) == n \in {"speed", "_aux"}

\* parameter values (opaque, pickled and unpickled unchanged)
Values == {10, 20}

\* the value of every parameter in the snapshot
SnapshotValue == 10

\* Attribute names a caller may use on the mirror: the parameters and a name
\* that is no parameter of the inventory ("bogus").
AttrNames == ParamNames \cup {"bogus"}

\* name.startswith("_")
StartsWithUnderscore(n) == n \in {"_aux"}

\* Names the server may put in a change batch. The server is a collaborator:
\* it may name any parameter, and "bogus" stands for a name the mirror has no
\* handle for.
BatchNames == {"speed", "status", "bogus"}

Events == [name : BatchNames, value : Values]

Batches == UNION {[1..k -> Events] : k \in 0..MaxBatch}

CallbackIds == {"cb1", "cb2"}

(***************************************************************************)
(* State.                                                                  *)
(***************************************************************************)
VARIABLES
    \* ---- RemoteParameters --------------------------------------------
    constructed,      \* __init__ has returned
    handles,          \* name -> [use_cache]: attributes bound to a RemoteParameter
    cached,           \* name -> _cached_value, for the handles that have one
    callbacks,        \* _callbacks: name -> sequence of callbacks
    listeners_pending_remote_registration,   \* sequence of names
    async_changed_parameters_queue,  \* "none", or the AsyncResult: "pending", "ready"
    async_listener_registering,      \* [st, names]: the AsyncResult, or none
    fetchOut,         \* get_changed_parameters_queue requests the server has not answered
    regOut,           \* register_remote_listeners requests the server has not answered
    requested,        \* history: the handles add_callback was called on
    carried,          \* history: the names register_remote_listeners requests carried
    lastOp            \* history: the last operation called on the mirror and its outcome

mirrorVars == <<constructed, handles, cached, callbacks,
                listeners_pending_remote_registration,
                async_changed_parameters_queue, async_listener_registering,
                fetchOut, regOut, requested, carried, lastOp>>

VARIABLES
    \* ---- AcquisitionController and its worker process -----------------
    ctl_pc,           \* the supervisor: "new", "waiting" (line 57), "running", "exited"
    worker_pc,        \* the worker: "unstarted", "setup", "drain", "pull", "exited"
                      \* (SystemExit), "failed" (its setup raised), "killed"
    to_child,         \* the pipe, supervisor -> worker: Commands not yet received
    to_parent,        \* the pipe, worker -> supervisor: messages not yet received
    last_hash,        \* the worker's last_hash
    svc,              \* the acquisition service: [paused, data_hash, data_uuid, raw]
    nginx_starts,     \* how often start_nginx has run
    sent,             \* history: the Commands sent, in order
    dispatched,       \* history: the calls the worker made on the service, in order
    pushed            \* history: the frames the worker pushed, in order, each with
                      \* the number of Commands sent and received by then

VARIABLES
    \* ---- the supervisor's reader thread (receive_acquired_data) --------
    on_new_data_received,  \* a subscriber callback is set (FALSE: None)
    reader_pc,        \* "unstarted", "recv" (line 69), "call" (line 71),
                      \* "closed" (EOFError), "failed" (any other exception)
    handshake,        \* history: what the blocking recv of line 57 returned
    received          \* history: what the reader received, in order: the message,
                      \* whether a subscriber was set at line 70 (sub) and
                      \* whether the subscriber was invoked with it (called)

readerVars == <<on_new_data_received, reader_pc, handshake, received>>

workerVars == <<ctl_pc, worker_pc, to_child, to_parent, last_hash, svc,
                nginx_starts, sent, dispatched, pushed, readerVars>>

vars == <<mirrorVars, workerVars>>

\* A record of lastOp: the operation, the name and callback it was given,
\* its boolean argument (first: call_with_first_value of add_callback,
\* use_cache of the constructor), the value written (a write, else 0),
\* how it ended, the batch it consumed, the callbacks it invoked, the
\* requests it sent to the server and the steps of
\* check_for_changed_parameters it went through, in order.
Op(op, name, cb, outcome, consumed, calls, rpcs) ==
    [op |-> op, name |-> name, cb |-> cb, first |-> FALSE, arg |-> 0,
     outcome |-> outcome, consumed |-> consumed, calls |-> calls, rpcs |-> rpcs,
     steps |-> <<>>]

NoOp == Op("none", "", "", "ok", <<>>, <<>>, <<>>)

NoAsync == [st |-> "none", value |-> <<>>]

MirrorInit ==
    /\ constructed = FALSE
    /\ handles = <<>>
    /\ cached = <<>>
    /\ callbacks = <<>>
    /\ listeners_pending_remote_registration = <<>>
    /\ async_changed_parameters_queue = "none"
    /\ async_listener_registering = NoAsync
    /\ fetchOut = 0
    /\ regOut = 0
    /\ requested = {}
    /\ carried = {}
    /\ lastOp = NoOp

(***************************************************************************)
(* RemoteParameter: one handle.                                            *)
(***************************************************************************)
\* The attributes a RemoteParameter instance has: the five set in __init__,
\* and _cached_value once update_cache has run on it.
HandleAttrs(n) ==
    {"name", "parent", "use_cache", "restorable", "loggable"}
        \cup (IF n \in DOMAIN cached THEN {"_cached_value"} ELSE {})

\* update_cache that keeps a value it already holds
update_cache_keeps_first(c, n, v) ==
    [x \in (DOMAIN c) \cup {n} |-> IF x \in DOMAIN c THEN c[x] ELSE v]

\* RemoteParameter.update_cache, on the map of cached values
update_cache(c, n, v) ==
    [x \in (DOMAIN c) \cup {n} |-> IF x = n THEN v ELSE c[x]]

\* RemoteParameter.value (getter), lines 45-50: the cached value when the
\* handle has one, else what exposed_get_param returns (fetched)
RemoteParameter_value(n, fetched) ==
    IF "_cached_value" \in HandleAttrs(n) THEN cached[n] ELSE fetched

\* f without the key n
Without(f, n) == [x \in (DOMAIN f) \ {n} |-> f[x]]

(***************************************************************************)
(* RemoteParameters.check_for_changed_parameters, as a function of the     *)
(* mirror's fields s. The result holds the fields after the call, what the *)
(* call consumed, the callbacks it invoked, the requests it issued and     *)
(* whether it raised.                                                      *)
(***************************************************************************)
\* CachePass that passes over a name bound to no handle instead of raising
RECURSIVE CachePassSkipsUnknown(_, _, _, _)
CachePassSkipsUnknown(queue, i, hs, c) ==
    IF i > Len(queue) THEN [cached |-> c, raised |-> FALSE]
    ELSE IF queue[i].name \notin DOMAIN hs
    THEN CachePassSkipsUnknown(queue, i + 1, hs, c)
    ELSE CachePassSkipsUnknown(queue, i + 1, hs,
                               IF hs[queue[i].name].use_cache
                               THEN update_cache(c, queue[i].name, queue[i].value)
                               ELSE c)

\* CachePass without the test of line 228: every handle named is updated
RECURSIVE CachePassAll(_, _, _, _)
CachePassAll(queue, i, hs, c) ==
    IF i > Len(queue) THEN [cached |-> c, raised |-> FALSE]
    ELSE IF queue[i].name \notin DOMAIN hs THEN [cached |-> c, raised |-> TRUE]
    ELSE CachePassAll(queue, i + 1, hs,
                      update_cache(c, queue[i].name, queue[i].value))

\* lines 226-229: the cache pass over queue[i..]; getattr(self, param_name)
\* raises AttributeError for a name bound to no handle, and the pass ends there
RECURSIVE CachePass(_, _, _, _)
CachePass(queue, i, hs, c) ==
    IF i > Len(queue) THEN [cached |-> c, raised |-> FALSE]
    ELSE IF queue[i].name \notin DOMAIN hs THEN [cached |-> c, raised |-> TRUE]
    ELSE CachePass(queue, i + 1, hs,
                   IF hs[queue[i].name].use_cache
                   THEN update_cache(c, queue[i].name, queue[i].value)
                   ELSE c)

\* lines 234-235: the callbacks of queue[i], in registration order; event is
\* the place of the event in the batch, seen the map of cached values a
\* callback finds when it is invoked
RECURSIVE CallsOfEvent(_, _, _, _, _)
CallsOfEvent(queue, i, cbs, j, c) ==
    IF j > Len(cbs) THEN <<>>
    ELSE <<[event |-> i, name |-> queue[i].name, cb |-> cbs[j],
            value |-> queue[i].value, seen |-> c]>>
             \o CallsOfEvent(queue, i, cbs, j + 1, c)

\* lines 232-235: the callback pass over queue[i..], run with the cached
\* values c the cache pass has left
RECURSIVE CallbackPass(_, _, _, _)
CallbackPass(queue, i, cbs, c) ==
    IF i > Len(queue) THEN <<>>
    ELSE (IF queue[i].name \in DOMAIN cbs
          THEN CallsOfEvent(queue, i, cbs[queue[i].name], 1, c)
          ELSE <<>>) \o CallbackPass(queue, i + 1, cbs, c)

\* PollIssueFetch without the test of line 188
PollIssueFetchAlways(s) ==
    [s EXCEPT !.fetch = "pending",
              !.fetchOut = @ + 1,
              !.rpcs = Append(@, "get_changed_parameters_queue"),
              !.steps = Append(@, "issue_fetch")]

\* lines 188-195: issue the first fetch request
PollIssueFetch(s) ==
    IF s.fetch = "none"
    THEN [s EXCEPT !.fetch = "pending",
                   !.fetchOut = @ + 1,
                   !.rpcs = Append(@, "get_changed_parameters_queue"),
                   !.steps = Append(@, "issue_fetch")]
    ELSE s

\* the names in a sequence of names
Range(q) == {q[i] : i \in DOMAIN q}

\* lines 197-208: flush the pending registrations
PollFlushPending(s) ==
    IF s.reg.st = "none" /\ s.pending # <<>>
    THEN [s EXCEPT !.reg = [st |-> "pending", value |-> s.pending],
                   !.regOut = @ + 1,
                   !.pending = <<>>,
                   !.carried = @ \cup Range(s.pending),
                   !.rpcs = Append(@, "register_remote_listeners"),
                   !.steps = Append(@, "flush")]
    ELSE s

\* PollConsume that leaves the next request to the next poll: the marker is
\* emptied and no request is issued
PollConsumeNoReissue(s, queue) ==
    IF s.fetch = "ready"
    THEN LET pass == CachePass(queue, 1, s.handles, s.cached)
         IN  [s EXCEPT !.fetch = "none",
                       !.consumed = queue,
                       !.cached = pass.cached,
                       !.raised = pass.raised,
                       !.calls = IF pass.raised THEN <<>>
                                 ELSE CallbackPass(queue, 1, s.callbacks, pass.cached),
                       !.steps = @ \o (IF pass.raised
                                       THEN <<"read", "cache_pass">>
                                       ELSE <<"read", "cache_pass", "callback_pass">>)]
    ELSE s

\* PollConsume that issues the next request after the cache pass, and so not
\* at all when the cache pass raises
PollConsumeCacheFirst(s, queue) ==
    IF s.fetch = "ready"
    THEN LET pass == CachePass(queue, 1, s.handles, s.cached)
         IN  IF pass.raised
             THEN [s EXCEPT !.consumed = queue,
                            !.cached = pass.cached,
                            !.raised = TRUE,
                            !.steps = @ \o <<"read", "cache_pass">>]
             ELSE [s EXCEPT !.fetch = "pending",
                            !.fetchOut = @ + 1,
                            !.rpcs = Append(@, "get_changed_parameters_queue"),
                            !.consumed = queue,
                            !.cached = pass.cached,
                            !.calls = CallbackPass(queue, 1, s.callbacks, pass.cached),
                            !.steps = @ \o <<"read", "cache_pass", "issue_fetch",
                                             "callback_pass">>]
    ELSE s

\* PollConsume that waits for the reply of an unanswered request (reads
\* .value without the test of .ready) and consumes it
PollConsumeWaits(s, queue) ==
    IF s.fetch \in {"ready", "pending"}
    THEN LET pass == CachePass(queue, 1, s.handles, s.cached)
         IN  [s EXCEPT !.fetch = "pending",
                       !.fetchOut = IF s.fetch = "ready" THEN @ + 1 ELSE @,
                       !.rpcs = Append(@, "get_changed_parameters_queue"),
                       !.consumed = queue,
                       !.cached = pass.cached,
                       !.raised = pass.raised,
                       !.calls = IF pass.raised THEN <<>>
                                 ELSE CallbackPass(queue, 1, s.callbacks, pass.cached),
                       !.steps = @ \o (IF pass.raised
                                       THEN <<"read", "issue_fetch", "cache_pass">>
                                       ELSE <<"read", "issue_fetch", "cache_pass",
                                              "callback_pass">>)]
    ELSE s

\* lines 210-235: consume a ready reply, whose unpickled value is queue: the
\* value is read (line 215), the next request issued (line 220), then the
\* cache pass (line 226) and, unless that raised, the callback pass (line 232)
PollConsume(s, queue) ==
    IF s.fetch = "ready"
    THEN LET pass == CachePass(queue, 1, s.handles, s.cached)
         IN  [s EXCEPT !.fetch = "pending",
                       !.fetchOut = @ + 1,
                       !.rpcs = Append(@, "get_changed_parameters_queue"),
                       !.consumed = queue,
                       !.cached = pass.cached,
                       !.raised = pass.raised,
                       !.calls = IF pass.raised THEN <<>>
                                 ELSE CallbackPass(queue, 1, s.callbacks, pass.cached),
                       !.steps = @ \o (IF pass.raised
                                       THEN <<"read", "issue_fetch", "cache_pass">>
                                       ELSE <<"read", "issue_fetch", "cache_pass",
                                              "callback_pass">>)]
    ELSE s

\* lines 237-243: clear the marker of a completed registration
PollClearRegistration(s) ==
    IF ~s.raised /\ s.reg.st = "ready"
    THEN [s EXCEPT !.reg = [st |-> "none", value |-> <<>>],
                   !.steps = Append(@, "clear")]
    ELSE s

\* queue is the value of the reply in _async_changed_parameters_queue, as
\* line 215 unpickles it; nothing reads it earlier, and it is not read at all
\* unless the reply is ready
check_for_changed_parameters(s, queue) ==
    PollClearRegistration(PollConsume(PollFlushPending(PollIssueFetch(s)), queue))

\* the mirror's fields, as check_for_changed_parameters takes them
Fields(hs, c) ==
    [handles |-> hs, cached |-> c, callbacks |-> callbacks,
     pending |-> listeners_pending_remote_registration,
     fetch |-> async_changed_parameters_queue,
     reg |-> async_listener_registering,
     fetchOut |-> fetchOut, regOut |-> regOut, carried |-> carried,
     consumed |-> <<>>, calls |-> <<>>, rpcs |-> <<>>, steps |-> <<>>,
     raised |-> FALSE]

\* the fields written back after a call of check_for_changed_parameters
StorePoll(r) ==
    /\ cached' = r.cached
    /\ listeners_pending_remote_registration' = r.pending
    /\ async_changed_parameters_queue' = r.fetch
    /\ async_listener_registering' = r.reg
    /\ fetchOut' = r.fetchOut
    /\ regOut' = r.regOut
    /\ carried' = r.carried

Outcome(raised) == IF raised THEN "AttributeError" ELSE "ok"

(***************************************************************************)
(* Operations of the mirror.                                               *)
(***************************************************************************)
\* Construct that takes the mirror-wide use_cache for every handle, whether
\* the inventory marks the parameter cacheable or not
ConstructCachesAll(use_cache) ==
    /\ ~constructed
    /\ LET hs == [n \in ParamNames |-> [use_cache |-> use_cache]]
           cs == [n \in {m \in ParamNames : hs[m].use_cache} |-> SnapshotValue]
           r  == check_for_changed_parameters(Fields(hs, cs), <<>>)
       IN  /\ handles' = hs
           /\ StorePoll(r)
           /\ lastOp' = [Op("construct", "", "", "ok", r.consumed, r.calls,
                            <<"init_parameter_sync">> \o r.rpcs)
                            EXCEPT !.first = use_cache, !.steps = r.steps]
    /\ constructed' = TRUE
    /\ UNCHANGED <<callbacks, requested>>
    /\ UNCHANGED workerVars

\* RemoteParameters.__init__: one exposed_init_parameter_sync call, one
\* handle per inventory entry, the cache of the use_cache handles seeded from
\* the snapshot, the attributes locked, then one poll.
Construct(use_cache) ==
    /\ ~constructed
    /\ LET hs == [n \in ParamNames |-> [use_cache |-> use_cache /\ Cacheable(n)]]
           cs == [n \in {m \in ParamNames : hs[m].use_cache} |-> SnapshotValue]
           r  == check_for_changed_parameters(Fields(hs, cs), <<>>)
       IN  /\ handles' = hs
           /\ StorePoll(r)
           /\ lastOp' = [Op("construct", "", "", "ok", r.consumed, r.calls,
                            <<"init_parameter_sync">> \o r.rpcs)
                            EXCEPT !.first = use_cache, !.steps = r.steps]
    /\ constructed' = TRUE
    /\ UNCHANGED <<callbacks, requested>>
    /\ UNCHANGED workerVars

\* check_for_changed_parameters called by the scheduler; queue is the value
\* of the reply it finds ready, if it finds one
Poll(queue) ==
    /\ constructed
    /\ async_changed_parameters_queue # "ready" => queue = <<>>
    /\ LET r == check_for_changed_parameters(Fields(handles, cached), queue)
       IN  /\ StorePoll(r)
           /\ lastOp' = [Op("poll", "", "", Outcome(r.raised), r.consumed,
                            r.calls, r.rpcs) EXCEPT !.steps = r.steps]
    /\ UNCHANGED <<constructed, handles, callbacks, requested>>
    /\ UNCHANGED workerVars

\* the server answers the outstanding get_changed_parameters_queue request
ServerFetchReply ==
    /\ async_changed_parameters_queue = "pending"
    /\ fetchOut > 0
    /\ async_changed_parameters_queue' = "ready"
    /\ fetchOut' = fetchOut - 1
    /\ UNCHANGED <<constructed, handles, cached, callbacks,
                   listeners_pending_remote_registration,
                   async_listener_registering, regOut, requested, carried,
                   lastOp>>
    /\ UNCHANGED workerVars

\* The server answers the outstanding register_remote_listeners request.
\* No such request is ever outstanding (add_callback never appends to the
\* pending registrations, see AddCallback), so this step is never enabled
\* and is left out of Next.
ServerRegisterReply ==
    /\ async_listener_registering.st = "pending"
    /\ regOut > 0
    /\ async_listener_registering' = [async_listener_registering EXCEPT !.st = "ready"]
    /\ regOut' = regOut - 1
    /\ UNCHANGED <<constructed, handles, cached, callbacks,
                   listeners_pending_remote_registration,
                   async_changed_parameters_queue, fetchOut, requested, carried,
                   lastOp>>
    /\ UNCHANGED workerVars

\* the mirror's fields no operation but a poll touches
UnchangedAsync ==
    UNCHANGED <<listeners_pending_remote_registration,
                async_changed_parameters_queue, async_listener_registering,
                fetchOut, regOut, carried>>

\* parameters.<n>.value: the cached value when there is one, else a
\* synchronous exposed_get_param
Read(n) ==
    /\ constructed
    /\ lastOp' = IF n \notin DOMAIN handles
                 THEN Op("read", n, "", "AttributeError", <<>>, <<>>, <<>>)
                 ELSE IF "_cached_value" \in HandleAttrs(n)
                 THEN Op("read", n, "", "ok", <<>>, <<>>, <<>>)
                 ELSE Op("read", n, "", "ok", <<>>, <<>>, <<"get_param">>)
    /\ UnchangedAsync
    /\ UNCHANGED <<constructed, handles, cached, callbacks, requested>>
    /\ UNCHANGED workerVars

\* Write that sends the name to the server without looking the handle up
WriteUnchecked(n, v) ==
    /\ constructed
    /\ lastOp' = [Op("write", n, "", "ok", <<>>, <<>>, <<"set_param">>)
                    EXCEPT !.arg = v]
    /\ UnchangedAsync
    /\ UNCHANGED <<constructed, handles, cached, callbacks, requested>>
    /\ UNCHANGED workerVars

\* Write that also stores the value in the handle's cache
WriteThrough(n, v) ==
    /\ constructed
    /\ lastOp' = [(IF n \notin DOMAIN handles
                   THEN Op("write", n, "", "AttributeError", <<>>, <<>>, <<>>)
                   ELSE Op("write", n, "", "ok", <<>>, <<>>, <<"set_param">>))
                    EXCEPT !.arg = v]
    /\ cached' = IF n \in DOMAIN handles /\ handles[n].use_cache
                 THEN update_cache(cached, n, v)
                 ELSE cached
    /\ UnchangedAsync
    /\ UNCHANGED <<constructed, handles, callbacks, requested>>
    /\ UNCHANGED workerVars

\* parameters.<n>.value = v: getattr(parameters, n) and then the setter, one
\* synchronous exposed_set_param
Write(n, v) ==
    /\ constructed
    /\ lastOp' = [(IF n \notin DOMAIN handles
                   THEN Op("write", n, "", "AttributeError", <<>>, <<>>, <<>>)
                   ELSE Op("write", n, "", "ok", <<>>, <<>>, <<"set_param">>))
                    EXCEPT !.arg = v]
    /\ UnchangedAsync
    /\ UNCHANGED <<constructed, handles, cached, callbacks, requested>>
    /\ UNCHANGED workerVars

\* parameters.<n> = <a plain value>: RemoteParameters.__setattr__ with
\* _attributes_locked set
SetAttr(n) ==
    /\ constructed
    /\ IF ~StartsWithUnderscore(n)
       THEN /\ lastOp' = Op("setattr", n, "", "AttributeError", <<>>, <<>>, <<>>)
            /\ UNCHANGED <<handles, cached>>
       ELSE /\ lastOp' = Op("setattr", n, "", "ok", <<>>, <<>>, <<>>)
            /\ handles' = Without(handles, n)
            /\ cached' = Without(cached, n)
    /\ UnchangedAsync
    /\ UNCHANGED <<constructed, callbacks, requested>>
    /\ UNCHANGED workerVars

\* parameters.<n>.add_callback(cb, call_with_first_value). Line 62 reads
\* self._callbacks on the RemoteParameter; no RemoteParameter has such an
\* attribute (the dict lives on the parent), so the read raises
\* AttributeError and lines 65-71 are not reached: nothing is appended to
\* parent._listeners_pending_remote_registration or parent._callbacks and
\* the callback is not invoked.
AddCallback(n, cb, call_with_first_value) ==
    /\ constructed
    /\ IF n \notin DOMAIN handles
       THEN /\ lastOp' = [Op("add_callback", n, cb, "AttributeError", <<>>, <<>>, <<>>)
                            EXCEPT !.first = call_with_first_value]
            /\ UNCHANGED requested
       ELSE /\ "_callbacks" \notin HandleAttrs(n)
            /\ lastOp' = [Op("add_callback", n, cb, "AttributeError", <<>>, <<>>, <<>>)
                            EXCEPT !.first = call_with_first_value]
            /\ requested' = requested \cup {n}
    /\ UnchangedAsync
    /\ UNCHANGED <<constructed, handles, cached, callbacks>>
    /\ UNCHANGED workerVars

(***************************************************************************)
(* The acquisition supervisor (AcquisitionController) and its worker.      *)
(***************************************************************************)
\* Python's None, where the model holds a number (last_hash = None, line 92)
None == 0

\* correlation ids a caller passes to continue_acquisition
Uuids == {7, 42}

\* measurement contents; the content hash of d is d itself
Data == {1, 2}

\* A Command (tag, payload): the payload is the flat list of the numbers in
\* data[1:], e.g. (SET_CSR, (key, value)) is [tag |-> "SET_CSR", arg |-> <<key, value>>]
Cmd(tag, arg) == [tag |-> tag, arg |-> arg]

\* a call on the acquisition service: the method, the number of positional
\* arguments it is given, and the numbers in them
Call(op, nargs, flat) == [op |-> op, nargs |-> nargs, flat |-> flat]

\* class AcquisitionProcessSignals(Enum), lines 32-42: the members and their
\* values, doubled (PAUSE_ACQUISIITON = 5.5 is 11)
AcquisitionProcessSignals ==
    [SHUTDOWN             |-> 0,
     SET_SWEEP_SPEED      |-> 4,
     SET_LOCK_STATUS      |-> 6,
     SET_CSR              |-> 8,
     SET_IIR_CSR          |-> 10,
     PAUSE_ACQUISIITON    |-> 11,
     CONTINUE_ACQUISITION |-> 12,
     FETCH_QUADRATURES    |-> 14,
     SET_RAW_ACQUISITION  |-> 16,
     SET_DUAL_CHANNEL     |-> 18]

\* data[0] == AcquisitionProcessSignals.X: a member crosses the pipe as its
\* value and is looked up by value on the other side, so two tags are the
\* same member when their values are equal
SameSignal(tag, member) ==
    AcquisitionProcessSignals[tag] = AcquisitionProcessSignals[member]

\* what the drain does for a Command no branch of lines 97-117 matches: no
\* call on the service
NoCall == Call("none", 0, <<>>)

\* DispatchCall that loses the correlation id of CONTINUE_ACQUISITION
DispatchCallDropsUuid(data) ==
    IF SameSignal(data.tag, "SET_SWEEP_SPEED")
    THEN Call("set_sweep_speed", 1, data.arg)
    ELSE IF SameSignal(data.tag, "SET_LOCK_STATUS")
    THEN Call("set_lock_status", 1, data.arg)
    ELSE IF SameSignal(data.tag, "FETCH_QUADRATURES")
    THEN Call("set_fetch_additional_signals", 1, data.arg)
    ELSE IF SameSignal(data.tag, "SET_RAW_ACQUISITION")
    THEN Call("set_raw_acquisition", 1, data.arg)
    ELSE IF SameSignal(data.tag, "SET_DUAL_CHANNEL")
    THEN Call("set_dual_channel", 1, data.arg)
    ELSE IF SameSignal(data.tag, "SET_CSR")
    THEN Call("set_csr", Len(data.arg), data.arg)
    ELSE IF SameSignal(data.tag, "SET_IIR_CSR")
    THEN Call("set_iir_csr", Len(data.arg), data.arg)
    ELSE IF SameSignal(data.tag, "PAUSE_ACQUISIITON")
    THEN Call("pause_acquisition", 0, <<>>)
    ELSE IF SameSignal(data.tag, "CONTINUE_ACQUISITION")
    THEN Call("continue_acquisition", 1, <<None>>)
    ELSE NoCall

\* DispatchCall without the branch of lines 108-109: SET_DUAL_CHANNEL falls
\* through the chain
DispatchCallSkipsDualChannel(data) ==
    IF SameSignal(data.tag, "SET_SWEEP_SPEED")
    THEN Call("set_sweep_speed", 1, data.arg)
    ELSE IF SameSignal(data.tag, "SET_LOCK_STATUS")
    THEN Call("set_lock_status", 1, data.arg)
    ELSE IF SameSignal(data.tag, "FETCH_QUADRATURES")
    THEN Call("set_fetch_additional_signals", 1, data.arg)
    ELSE IF SameSignal(data.tag, "SET_RAW_ACQUISITION")
    THEN Call("set_raw_acquisition", 1, data.arg)
    ELSE IF SameSignal(data.tag, "SET_CSR")
    THEN Call("set_csr", Len(data.arg), data.arg)
    ELSE IF SameSignal(data.tag, "SET_IIR_CSR")
    THEN Call("set_iir_csr", Len(data.arg), data.arg)
    ELSE IF SameSignal(data.tag, "PAUSE_ACQUISIITON")
    THEN Call("pause_acquisition", 0, <<>>)
    ELSE IF SameSignal(data.tag, "CONTINUE_ACQUISITION")
    THEN Call("continue_acquisition", 1, data.arg)
    ELSE NoCall

\* lines 99-117: the call the worker makes for a Command other than SHUTDOWN,
\* the branches in the order of the chain. data[1] is passed as one argument;
\* SET_CSR and SET_IIR_CSR unpack it (*data[1]); PAUSE_ACQUISIITON passes
\* nothing. A Command no branch matches makes no call.
DispatchCall(data) ==
    IF SameSignal(data.tag, "SET_SWEEP_SPEED")
    THEN Call("set_sweep_speed", 1, data.arg)
    ELSE IF SameSignal(data.tag, "SET_LOCK_STATUS")
    THEN Call("set_lock_status", 1, data.arg)
    ELSE IF SameSignal(data.tag, "FETCH_QUADRATURES")
    THEN Call("set_fetch_additional_signals", 1, data.arg)
    ELSE IF SameSignal(data.tag, "SET_RAW_ACQUISITION")
    THEN Call("set_raw_acquisition", 1, data.arg)
    ELSE IF SameSignal(data.tag, "SET_DUAL_CHANNEL")
    THEN Call("set_dual_channel", 1, data.arg)
    ELSE IF SameSignal(data.tag, "SET_CSR")
    THEN Call("set_csr", Len(data.arg), data.arg)
    ELSE IF SameSignal(data.tag, "SET_IIR_CSR")
    THEN Call("set_iir_csr", Len(data.arg), data.arg)
    ELSE IF SameSignal(data.tag, "PAUSE_ACQUISIITON")
    THEN Call("pause_acquisition", 0, <<>>)
    ELSE IF SameSignal(data.tag, "CONTINUE_ACQUISITION")
    THEN Call("continue_acquisition", 1, data.arg)
    ELSE NoCall

\* The acquisition service (linien_server/acquisition/service.py, not among
\* the sources): pausing stops the acquisition and drops the current data,
\* continuing drops the current data, resumes and tags what is acquired from
\* now on with the given correlation id.
ServiceCall(s, call) ==
    CASE call.op = "pause_acquisition" ->
            [s EXCEPT !.paused = TRUE, !.data_hash = None]
      [] call.op = "continue_acquisition" ->
            [s EXCEPT !.paused = FALSE, !.data_hash = None, !.data_uuid = call.flat[1]]
      [] call.op = "set_raw_acquisition" ->
            [s EXCEPT !.raw = (call.flat[1] = 1)]
      [] OTHER -> s

\* exposed_return_data(last_hash): (new_data_returned, new_hash, data_was_raw,
\* new_data, data_uuid); data is reported when there is some, the acquisition
\* is not paused and its hash differs from the hash passed in
return_data(s, hash) ==
    IF s.data_hash # None /\ ~s.paused /\ s.data_hash # hash
    THEN [changed |-> TRUE, new_hash |-> s.data_hash, is_raw |-> s.raw,
          data |-> s.data_hash, uuid |-> s.data_uuid]
    ELSE [changed |-> FALSE, new_hash |-> None, is_raw |-> FALSE,
          data |-> None, uuid |-> None]

\* a frame as line 129 sends it: (data_was_raw, new_data, data_uuid)
Frame(r) == [ready |-> FALSE, is_raw |-> r.is_raw, data |-> r.data, uuid |-> r.uuid]

\* the readiness message of line 88: True
ReadyMsg == [ready |-> TRUE, is_raw |-> FALSE, data |-> None, uuid |-> None]

WorkerInit ==
    /\ ctl_pc = "new"
    /\ worker_pc = "unstarted"
    /\ to_child = <<>>
    /\ to_parent = <<>>
    /\ last_hash = None
    /\ svc = [paused |-> FALSE, data_hash |-> None, data_uuid |-> None, raw |-> FALSE]
    /\ nginx_starts = 0
    /\ sent = <<>>
    /\ dispatched = <<>>
    /\ pushed = <<>>
    /\ on_new_data_received = FALSE
    /\ reader_pc = "unstarted"
    /\ handshake = <<>>
    /\ received = <<>>

\* AcquisitionController.__init__, lines 47-54: the pipe and the process
CtlStart ==
    /\ ctl_pc = "new"
    /\ ctl_pc' = "waiting"
    /\ worker_pc' = "setup"
    /\ UNCHANGED <<to_child, to_parent, last_hash, svc, nginx_starts,
                   sent, dispatched, pushed>>
    /\ UNCHANGED readerVars
    /\ UNCHANGED mirrorVars

\* AcquisitionController.__init__, lines 57-65: the blocking recv returns,
\* the reader thread starts, shutdown is registered for the process exit
CtlReady ==
    /\ ctl_pc = "waiting"
    /\ to_parent # <<>>
    /\ handshake' = Append(handshake, Head(to_parent))
    /\ to_parent' = Tail(to_parent)
    /\ reader_pc' = "recv"
    /\ ctl_pc' = "running"
    /\ UNCHANGED <<worker_pc, to_child, last_hash, svc, nginx_starts,
                   sent, dispatched, pushed>>
    /\ UNCHANGED <<on_new_data_received, received>>
    /\ UNCHANGED mirrorVars

\* WorkerSetup that does not send the readiness message
WorkerSetupSilent ==
    /\ worker_pc = "setup"
    /\ last_hash' = None
    /\ worker_pc' = "drain"
    /\ UNCHANGED <<ctl_pc, to_child, to_parent, svc, nginx_starts, sent,
                   dispatched, pushed>>
    /\ UNCHANGED readerVars
    /\ UNCHANGED mirrorVars

\* connect_acquisition_service, lines 74-92: the service is set up and the
\* worker tells the supervisor it is ready
WorkerSetup ==
    /\ worker_pc = "setup"
    /\ to_parent' = Append(to_parent, ReadyMsg)
    /\ last_hash' = None
    /\ worker_pc' = "drain"
    /\ UNCHANGED <<ctl_pc, to_child, svc, nginx_starts, sent,
                   dispatched, pushed>>
    /\ UNCHANGED readerVars
    /\ UNCHANGED mirrorVars

\* connect_acquisition_service, lines 74-85: connecting to the service,
\* stopping nginx, flashing the FPGA or constructing the service raises; the
\* worker process ends before line 88, with nothing sent
WorkerSetupFails ==
    /\ worker_pc = "setup"
    /\ worker_pc' = "failed"
    /\ UNCHANGED <<ctl_pc, to_child, to_parent, last_hash, svc, nginx_starts,
                   sent, dispatched, pushed>>
    /\ UNCHANGED readerVars
    /\ UNCHANGED mirrorVars

\* WorkerRecv that takes the Command sent last, not the one sent first
WorkerRecvLast ==
    /\ worker_pc = "drain"
    /\ to_child # <<>>
    /\ LET data == to_child[Len(to_child)]
       IN  /\ to_child' = SubSeq(to_child, 1, Len(to_child) - 1)
           /\ IF SameSignal(data.tag, "SHUTDOWN")
              THEN /\ worker_pc' = "exited"
                   /\ UNCHANGED <<svc, dispatched>>
              ELSE /\ svc' = ServiceCall(svc, DispatchCall(data))
                   /\ dispatched' = Append(dispatched, DispatchCall(data))
                   /\ UNCHANGED worker_pc
    /\ UNCHANGED <<ctl_pc, to_parent, last_hash, nginx_starts, sent, pushed>>
    /\ UNCHANGED readerVars
    /\ UNCHANGED mirrorVars

\* WorkerRecv that drops a SHUTDOWN Command and goes on draining
WorkerRecvNoExit ==
    /\ worker_pc = "drain"
    /\ to_child # <<>>
    /\ LET data == Head(to_child)
       IN  /\ to_child' = Tail(to_child)
           /\ IF SameSignal(data.tag, "SHUTDOWN")
              THEN UNCHANGED <<worker_pc, svc, dispatched>>
              ELSE /\ svc' = ServiceCall(svc, DispatchCall(data))
                   /\ dispatched' = Append(dispatched, DispatchCall(data))
                   /\ UNCHANGED worker_pc
    /\ UNCHANGED <<ctl_pc, to_parent, last_hash, nginx_starts, sent, pushed>>
    /\ UNCHANGED readerVars
    /\ UNCHANGED mirrorVars

\* lines 95-117, pipe.poll() is true: one Command is received; SHUTDOWN
\* raises SystemExit, any other Command is passed to the service
WorkerRecv ==
    /\ worker_pc = "drain"
    /\ to_child # <<>>
    /\ LET data == Head(to_child)
       IN  /\ to_child' = Tail(to_child)
           /\ IF SameSignal(data.tag, "SHUTDOWN")
              THEN /\ worker_pc' = "exited"
                   /\ UNCHANGED <<svc, dispatched>>
              ELSE /\ svc' = ServiceCall(svc, DispatchCall(data))
                   /\ dispatched' = Append(dispatched, DispatchCall(data))
                   /\ UNCHANGED worker_pc
    /\ UNCHANGED <<ctl_pc, to_parent, last_hash, nginx_starts, sent, pushed>>
    /\ UNCHANGED readerVars
    /\ UNCHANGED mirrorVars

\* WorkerDrained that ends the drain with Commands still in the pipe
WorkerDrainedEarly ==
    /\ worker_pc = "drain"
    /\ worker_pc' = "pull"
    /\ UNCHANGED <<ctl_pc, to_child, to_parent, last_hash, svc, nginx_starts, sent, dispatched, pushed>>
    /\ UNCHANGED readerVars
    /\ UNCHANGED mirrorVars

\* line 95, pipe.poll() is false: the drain ends
WorkerDrained ==
    /\ worker_pc = "drain"
    /\ to_child = <<>>
    /\ worker_pc' = "pull"
    /\ UNCHANGED <<ctl_pc, to_child, to_parent, last_hash, svc, nginx_starts, sent, dispatched, pushed>>
    /\ UNCHANGED readerVars
    /\ UNCHANGED mirrorVars

\* WorkerPull that pushes new data and does not remember its hash
WorkerPullKeepsHash ==
    /\ worker_pc = "pull"
    /\ LET r == return_data(svc, last_hash)
       IN  IF r.changed
           THEN /\ to_parent' = Append(to_parent, Frame(r))
                /\ pushed' = Append(pushed,
                        [hash |-> r.new_hash, frame |-> Frame(r),
                         nsent |-> Len(sent),
                         nrecv |-> Len(sent) - Len(to_child)])
                /\ UNCHANGED last_hash
           ELSE UNCHANGED <<last_hash, to_parent, pushed>>
    /\ worker_pc' = "drain"
    /\ UNCHANGED <<ctl_pc, to_child, svc, nginx_starts, sent, dispatched>>
    /\ UNCHANGED readerVars
    /\ UNCHANGED mirrorVars

\* lines 120-131: the pull; new data is pushed and its hash remembered
WorkerPull ==
    /\ worker_pc = "pull"
    /\ LET r == return_data(svc, last_hash)
       IN  IF r.changed
           THEN /\ last_hash' = r.new_hash
                /\ to_parent' = Append(to_parent, Frame(r))
                /\ pushed' = Append(pushed,
                        [hash |-> r.new_hash, frame |-> Frame(r),
                         nsent |-> Len(sent),
                         nrecv |-> Len(sent) - Len(to_child)])
           ELSE UNCHANGED <<last_hash, to_parent, pushed>>
    /\ worker_pc' = "drain"
    /\ UNCHANGED <<ctl_pc, to_child, svc, nginx_starts, sent, dispatched>>
    /\ UNCHANGED readerVars
    /\ UNCHANGED mirrorVars

\* the service's acquisition loop takes a measurement with content d
Acquire(d) ==
    /\ worker_pc \in {"drain", "pull"}
    /\ ~svc.paused
    /\ Len(pushed) < MaxPushed
    /\ svc.data_hash # d
    /\ svc' = [svc EXCEPT !.data_hash = d]
    /\ UNCHANGED <<ctl_pc, worker_pc, to_child, to_parent, last_hash,
                   nginx_starts, sent, dispatched, pushed>>
    /\ UNCHANGED readerVars
    /\ UNCHANGED mirrorVars

\* line 53, daemon = True: a worker still running when the supervisor's
\* process has exited is terminated
WorkerKilled ==
    /\ ctl_pc = "exited"
    /\ worker_pc \in {"setup", "drain", "pull"}
    /\ worker_pc' = "killed"
    /\ UNCHANGED <<ctl_pc, to_child, to_parent, last_hash, svc, nginx_starts,
                   sent, dispatched, pushed>>
    /\ UNCHANGED readerVars
    /\ UNCHANGED mirrorVars

\* self.parent_conn.send(cmd). Once the worker process has exited its end of
\* the pipe is closed and the send raises BrokenPipeError.
PipeBroken == worker_pc \in {"exited", "failed", "killed"}

Send(cmd) ==
    /\ ~PipeBroken
    /\ to_child' = Append(to_child, cmd)
    /\ sent' = Append(sent, cmd)

\* a Command method of the supervisor (lines 133-137, 144-167): one send
Issue(cmd) ==
    /\ ctl_pc = "running"
    /\ Len(sent) < MaxSends
    /\ Send(cmd)
    /\ UNCHANGED <<ctl_pc, worker_pc, to_parent, last_hash, svc, nginx_starts, dispatched, pushed>>
    /\ UNCHANGED readerVars
    /\ UNCHANGED mirrorVars

pause_acquisition == Issue(Cmd("PAUSE_ACQUISIITON", <<1>>))

continue_acquisition(uuid) == Issue(Cmd("CONTINUE_ACQUISITION", <<uuid>>))

set_sweep_speed(speed) == Issue(Cmd("SET_SWEEP_SPEED", <<speed>>))

set_lock_status(status) == Issue(Cmd("SET_LOCK_STATUS", <<status>>))

fetch_additional_signals(status) == Issue(Cmd("FETCH_QUADRATURES", <<status>>))

set_csr(key, value) == Issue(Cmd("SET_CSR", <<key, value>>))

set_iir_csr(args) == Issue(Cmd("SET_IIR_CSR", args))

set_raw_acquisition(enabled, decimation) ==
    Issue(Cmd("SET_RAW_ACQUISITION", <<enabled, decimation>>))

set_dual_channel(enabled) == Issue(Cmd("SET_DUAL_CHANNEL", <<enabled>>))

\* AcquisitionController.shutdown, lines 139-142: parent_conn is a Connection
\* and always true; the send, then start_nginx. When the send raises,
\* start_nginx is not reached.
shutdown ==
    IF PipeBroken
    THEN UNCHANGED <<to_child, sent, nginx_starts>>
    ELSE /\ Send(Cmd("SHUTDOWN", <<>>))
         /\ nginx_starts' = nginx_starts + 1

\* shutdown called by the supervisor's owner
ExplicitShutdown ==
    /\ ctl_pc = "running"
    /\ Len(sent) < MaxSends
    /\ shutdown
    /\ UNCHANGED <<ctl_pc, worker_pc, to_parent, last_hash, svc, dispatched, pushed>>
    /\ UNCHANGED readerVars
    /\ UNCHANGED mirrorVars

\* the process exits: the hook registered at line 65 calls shutdown
ProcessExit ==
    /\ ctl_pc = "running"
    /\ shutdown
    /\ ctl_pc' = "exited"
    /\ UNCHANGED <<worker_pc, to_parent, last_hash, svc, dispatched, pushed>>
    /\ UNCHANGED readerVars
    /\ UNCHANGED mirrorVars

(***************************************************************************)
(* The reader thread: AcquisitionController.receive_acquired_data.         *)
(***************************************************************************)
\* the supervisor's owner sets on_new_data_received to a callback (TRUE) or
\* to None (FALSE)
SetSubscriber(cb) ==
    /\ ctl_pc = "running"
    /\ on_new_data_received # cb
    /\ on_new_data_received' = cb
    /\ UNCHANGED <<reader_pc, handshake, received>>
    /\ UNCHANGED <<ctl_pc, worker_pc, to_child, to_parent, last_hash, svc,
                   nginx_starts, sent, dispatched, pushed>>
    /\ UNCHANGED mirrorVars

\* an entry of received
Received(msg, sub) == [msg |-> msg, sub |-> sub, called |-> FALSE]

\* ReaderRecv that takes the message sent last, not the one sent first
ReaderRecvLast ==
    /\ ctl_pc = "running"
    /\ reader_pc = "recv"
    /\ to_parent # <<>>
    /\ to_parent' = SubSeq(to_parent, 1, Len(to_parent) - 1)
    /\ LET msg == to_parent[Len(to_parent)]
       IN  IF msg.ready
           THEN /\ received' = Append(received, Received(msg, FALSE))
                /\ reader_pc' = "failed"
           ELSE /\ received' = Append(received, Received(msg, on_new_data_received))
                /\ reader_pc' = IF on_new_data_received THEN "call" ELSE "recv"
    /\ UNCHANGED <<on_new_data_received, handshake>>
    /\ UNCHANGED <<ctl_pc, worker_pc, to_child, last_hash, svc,
                   nginx_starts, sent, dispatched, pushed>>
    /\ UNCHANGED mirrorVars

\* lines 69-70: conn.recv() returns a message, which is unpacked into three
\* values (True cannot be unpacked: TypeError), and on_new_data_received is
\* tested: with None the frame is dropped
ReaderRecv ==
    /\ ctl_pc = "running"
    /\ reader_pc = "recv"
    /\ to_parent # <<>>
    /\ to_parent' = Tail(to_parent)
    /\ LET msg == Head(to_parent)
       IN  IF msg.ready
           THEN /\ received' = Append(received, Received(msg, FALSE))
                /\ reader_pc' = "failed"
           ELSE /\ received' = Append(received, Received(msg, on_new_data_received))
                /\ reader_pc' = IF on_new_data_received THEN "call" ELSE "recv"
    /\ UNCHANGED <<on_new_data_received, handshake>>
    /\ UNCHANGED <<ctl_pc, worker_pc, to_child, last_hash, svc,
                   nginx_starts, sent, dispatched, pushed>>
    /\ UNCHANGED mirrorVars

\* line 71: on_new_data_received is read again and called with the frame.
\* Nothing catches what the call raises (the subscriber itself, or the call
\* of None when the attribute was reset since line 70): the exception leaves
\* the loop and the thread ends.
ReaderCall(raises) ==
    /\ ctl_pc = "running"
    /\ reader_pc = "call"
    /\ IF on_new_data_received
       THEN /\ received' = [received EXCEPT ![Len(received)].called = TRUE]
            /\ reader_pc' = IF raises THEN "failed" ELSE "recv"
       ELSE /\ reader_pc' = "failed"
            /\ UNCHANGED received
    /\ UNCHANGED <<on_new_data_received, handshake>>
    /\ UNCHANGED <<ctl_pc, worker_pc, to_child, to_parent, last_hash, svc,
                   nginx_starts, sent, dispatched, pushed>>
    /\ UNCHANGED mirrorVars

\* line 69: the worker process has ended and the pipe is empty; conn.recv()
\* raises EOFError and the thread ends
ReaderEOF ==
    /\ ctl_pc = "running"
    /\ reader_pc = "recv"
    /\ to_parent = <<>>
    /\ worker_pc = "exited"
    /\ reader_pc' = "closed"
    /\ UNCHANGED <<on_new_data_received, handshake, received>>
    /\ UNCHANGED <<ctl_pc, worker_pc, to_child, to_parent, last_hash, svc,
                   nginx_starts, sent, dispatched, pushed>>
    /\ UNCHANGED mirrorVars

Init == MirrorInit /\ WorkerInit

Next ==
    \/ \E use_cache \in BOOLEAN : Construct(use_cache)
    \/ \E queue \in Batches : Poll(queue)
    \/ ServerFetchReply
    \/ \E n \in AttrNames : Read(n)
    \/ \E n \in AttrNames, v \in Values : Write(n, v)
    \/ \E n \in AttrNames : SetAttr(n)
    \/ \E n \in AttrNames, cb \in CallbackIds, first \in BOOLEAN : AddCallback(n, cb, first)

Spec == Init /\ [][Next]_vars

WorkerNext ==
    \/ CtlStart
    \/ CtlReady
    \/ WorkerSetup
    \/ WorkerSetupFails
    \/ WorkerRecv
    \/ WorkerDrained
    \/ WorkerPull
    \/ \E d \in Data : Acquire(d)
    \/ WorkerKilled
    \/ pause_acquisition
    \/ \E uuid \in Uuids : continue_acquisition(uuid)
    \/ set_sweep_speed(3)
    \/ set_lock_status(1)
    \/ fetch_additional_signals(1)
    \/ set_csr(5, 6)
    \/ set_iir_csr(<<1, 2, 3>>)
    \/ set_raw_acquisition(1, 4)
    \/ set_dual_channel(1)
    \/ ExplicitShutdown
    \/ ProcessExit

WorkerSpec == Init /\ [][WorkerNext]_vars

\* the supervisor with its reader thread, under few Commands
ReaderNext ==
    \/ CtlStart
    \/ CtlReady
    \/ WorkerSetup
    \/ WorkerSetupFails
    \/ WorkerRecv
    \/ WorkerDrained
    \/ WorkerPull
    \/ \E d \in Data : Acquire(d)
    \/ WorkerKilled
    \/ \E cb \in BOOLEAN : SetSubscriber(cb)
    \/ ReaderRecv
    \/ \E raises \in BOOLEAN : ReaderCall(raises)
    \/ ReaderEOF
    \/ pause_acquisition
    \/ \E uuid \in Uuids : continue_acquisition(uuid)
    \/ ExplicitShutdown
    \/ ProcessExit

ReaderSpec == Init /\ [][ReaderNext]_vars

\* the supervisor and a worker that keeps running its loop: a worker that
\* can take a step of the loop (lines 93-131) eventually takes it
ShutdownNext ==
    \/ CtlStart
    \/ CtlReady
    \/ WorkerSetup
    \/ WorkerSetupFails
    \/ WorkerRecv
    \/ WorkerDrained
    \/ WorkerPull
    \/ \E d \in Data : Acquire(d)
    \/ WorkerKilled
    \/ pause_acquisition
    \/ \E uuid \in Uuids : continue_acquisition(uuid)
    \/ set_csr(5, 6)
    \/ ExplicitShutdown
    \/ ProcessExit

ShutdownSpec ==
    /\ Init
    /\ [][ShutdownNext]_vars
    /\ WF_vars(WorkerRecv)
    /\ WF_vars(WorkerDrained)
    /\ WF_vars(WorkerPull)

(***************************************************************************)
(* Properties of the mirror, checked under Spec.                           *)
(***************************************************************************)
\* some event of the batch q names n
HasEvent(q, n) == \E i \in DOMAIN q : q[i].name = n

\* the value of the last event of q that names n
LastValue(q, n) ==
    q[CHOOSE i \in DOMAIN q :
        /\ q[i].name = n
        /\ \A j \in DOMAIN q : q[j].name = n => j <= i].value

\* C1: in every reachable state, whatever the interleaving of polls and
\* server replies, at most one get_changed_parameters_queue request and at
\* most one register_remote_listeners request are outstanding.
C1_AtMostOneOutstanding ==
    /\ fetchOut <= 1
    /\ regOut <= 1

\* a poll has consumed a batch and issued the next request: one is outstanding
C1_Witness ==
    /\ lastOp.op = "poll"
    /\ lastOp.consumed # <<>>
    /\ fetchOut = 1

\* C2: after a poll that consumed a batch has returned, reading a cache-backed
\* parameter the batch names returns the value of the batch's last event for
\* that name.
C2_ReadReturnsLatestOfBatch ==
    (lastOp.op = "poll" /\ lastOp.outcome = "ok") =>
        \A n \in DOMAIN handles :
            (handles[n].use_cache /\ HasEvent(lastOp.consumed, n)) =>
                \A fetched \in Values :
                    RemoteParameter_value(n, fetched) = LastValue(lastOp.consumed, n)

\* a batch with two events for speed, the later one differing from the
\* earlier one and from the snapshot, has been consumed
C2_Witness ==
    /\ lastOp.op = "poll"
    /\ lastOp.outcome = "ok"
    /\ Len(lastOp.consumed) = 2
    /\ lastOp.consumed[1] = [name |-> "speed", value |-> 10]
    /\ lastOp.consumed[2] = [name |-> "speed", value |-> 20]
    /\ "speed" \in DOMAIN cached
    /\ cached["speed"] = 20

\* C3: add_callback(cb) with call_with_first_value true on a handle completes
\* normally, registers cb and invokes cb exactly once before it returns.
C3_AddCallbackInvokesOnce ==
    (lastOp.op = "add_callback" /\ lastOp.first /\ lastOp.name \in DOMAIN handles) =>
        /\ lastOp.outcome = "ok"
        /\ lastOp.name \in DOMAIN callbacks
        /\ \E i \in DOMAIN callbacks[lastOp.name] :
               callbacks[lastOp.name][i] = lastOp.cb
        /\ Len(lastOp.calls) = 1
        /\ lastOp.calls[1].name = lastOp.name
        /\ lastOp.calls[1].cb = lastOp.cb

\* C4: a write to a name that is not in the frozen parameter set fails with
\* AttributeError, sends no set_param request and leaves the handles, the
\* cached values and the callback lists as they were.
C4_UnknownWriteFails ==
    [][(lastOp' # lastOp /\ lastOp'.op = "write" /\ lastOp'.name \notin ParamNames) =>
          /\ lastOp'.outcome = "AttributeError"
          /\ lastOp'.rpcs = <<>>
          /\ handles' = handles
          /\ cached' = cached
          /\ callbacks' = callbacks]_vars

\* a write to the unknown name bogus has failed
C4_Witness ==
    /\ constructed
    /\ lastOp.op = "write"
    /\ lastOp.name = "bogus"
    /\ lastOp.outcome = "AttributeError"

\* C5: after construction the handles are those of the inventory, whatever
\* their spelling, and an attempt to rebind one of their names raises
\* AttributeError.
C5_HandleSetClosed ==
    constructed =>
        /\ DOMAIN handles = ParamNames
        /\ (lastOp.op = "setattr" /\ lastOp.name \in ParamNames) =>
               lastOp.outcome = "AttributeError"

\* C10: after a poll that consumed a batch, every event whose name
\* add_callback was called on has had its callback invoked with the event's
\* value, every callback invoked belongs to an event of the batch, and no
\* handle that is not cache-backed holds a cached value.
C10_EventReachesItsCallbacks ==
    (lastOp.op = "poll" /\ lastOp.outcome = "ok") =>
        /\ \A i \in DOMAIN lastOp.consumed :
               lastOp.consumed[i].name \in requested =>
                   \E j \in DOMAIN lastOp.calls :
                       /\ lastOp.calls[j].name = lastOp.consumed[i].name
                       /\ lastOp.calls[j].value = lastOp.consumed[i].value
        /\ \A j \in DOMAIN lastOp.calls :
               \E i \in DOMAIN lastOp.consumed :
                   /\ lastOp.calls[j].name = lastOp.consumed[i].name
                   /\ lastOp.calls[j].value = lastOp.consumed[i].value
        /\ \A n \in DOMAIN handles : ~handles[n].use_cache => n \notin DOMAIN cached

\* C11: in a poll that consumed a batch, every event whose name add_callback
\* was called on has its callback invoked, and every callback invoked finds
\* the cached values as the whole batch leaves them (the values the poll
\* returns with).
C11_CallbackSeesFinalCache ==
    (lastOp.op = "poll" /\ lastOp.outcome = "ok") =>
        /\ \A i \in DOMAIN lastOp.consumed :
               lastOp.consumed[i].name \in requested =>
                   \E j \in DOMAIN lastOp.calls :
                       /\ lastOp.calls[j].event = i
                       /\ lastOp.calls[j].seen = cached
        /\ \A j \in DOMAIN lastOp.calls : lastOp.calls[j].seen = cached

\* C12: in a poll that consumed a batch, the callbacks run in the order of
\* the batch: every event whose name add_callback was called on has a
\* callback invoked, every call carries the name and the value of its event,
\* and the calls of an earlier event come before those of a later one.
C12_CallbacksInBatchOrder ==
    (lastOp.op = "poll" /\ lastOp.outcome = "ok") =>
        /\ \A i \in DOMAIN lastOp.consumed :
               lastOp.consumed[i].name \in requested =>
                   \E j \in DOMAIN lastOp.calls : lastOp.calls[j].event = i
        /\ \A j \in DOMAIN lastOp.calls :
               /\ lastOp.calls[j].event \in DOMAIN lastOp.consumed
               /\ lastOp.calls[j].name = lastOp.consumed[lastOp.calls[j].event].name
               /\ lastOp.calls[j].value = lastOp.consumed[lastOp.calls[j].event].value
        /\ \A j, k \in DOMAIN lastOp.calls :
               j < k =>
                   lastOp.calls[j].event <= lastOp.calls[k].event

\* C13: a write to a handle sends exactly one set_param request and leaves
\* every cached value as it was, so a read right after it returns the value
\* cached before the write; the value a handle has cached changes only in a
\* poll that consumes an event for its name.
C13_WriteLeavesCache ==
    [][/\ (lastOp' # lastOp /\ lastOp'.op = "write" /\ lastOp'.name \in DOMAIN handles) =>
            /\ lastOp'.outcome = "ok"
            /\ lastOp'.rpcs = <<"set_param">>
            /\ cached' = cached
            /\ \A n \in DOMAIN cached, fetched \in Values :
                   RemoteParameter_value(n, fetched)' = cached[n]
       /\ \A n \in (DOMAIN cached) \cap (DOMAIN cached') :
            cached'[n] # cached[n] =>
                /\ lastOp'.op = "poll"
                /\ HasEvent(lastOp'.consumed, n)]_vars

\* 20 was written to speed, whose cached value is still the snapshot's 10
C13_Witness ==
    /\ lastOp.op = "write"
    /\ lastOp.name = "speed"
    /\ lastOp.arg = 20
    /\ lastOp.outcome = "ok"
    /\ "speed" \in DOMAIN cached
    /\ cached["speed"] = 10

\* C14: after construction a handle holds a cached value exactly when it is
\* cache-backed; a read of a cache-backed handle returns the cached value
\* and sends no request, a read of any other handle sends exactly one
\* get_param request.
C14_CachedIffUseCache ==
    constructed =>
        /\ \A n \in DOMAIN handles :
               /\ ("_cached_value" \in HandleAttrs(n)) <=> handles[n].use_cache
               /\ handles[n].use_cache =>
                      \A fetched \in Values :
                          RemoteParameter_value(n, fetched) = cached[n]
               /\ ~handles[n].use_cache =>
                      \A fetched \in Values :
                          RemoteParameter_value(n, fetched) = fetched
        /\ (lastOp.op = "read" /\ lastOp.name \in DOMAIN handles) =>
               lastOp.rpcs = (IF handles[lastOp.name].use_cache
                              THEN <<>> ELSE <<"get_param">>)

\* in a mirror that caches speed, status (not cacheable) was read, with one
\* get_param request
C14_Witness ==
    /\ constructed
    /\ handles["speed"].use_cache
    /\ cached["speed"] = 20
    /\ lastOp.op = "read"
    /\ lastOp.name = "status"
    /\ lastOp.rpcs = <<"get_param">>

\* C17: when the constructor returns it has made one init_parameter_sync
\* call and, in its one poll, issued one get_changed_parameters_queue
\* request, which is outstanding; there is one handle per inventory entry,
\* cache-backed exactly when the entry is cacheable and the mirror caches,
\* and exactly the cache-backed handles hold the snapshot value.
C17_ConstructionSeedsAndPolls ==
    [][(~constructed /\ constructed') =>
          /\ lastOp'.op = "construct"
          /\ lastOp'.rpcs = <<"init_parameter_sync", "get_changed_parameters_queue">>
          /\ lastOp'.consumed = <<>>
          /\ lastOp'.calls = <<>>
          /\ fetchOut' = 1
          /\ async_changed_parameters_queue' = "pending"
          /\ DOMAIN handles' = ParamNames
          /\ \A n \in ParamNames :
                 handles'[n].use_cache = (Cacheable(n) /\ lastOp'.first)
          /\ DOMAIN cached' = {n \in ParamNames : handles'[n].use_cache}
          /\ \A n \in DOMAIN cached' : cached'[n] = SnapshotValue]_vars

\* a caching mirror was constructed: speed is seeded, status is not
C17_Witness ==
    /\ lastOp.op = "construct"
    /\ lastOp.first
    /\ "speed" \in DOMAIN cached
    /\ cached["speed"] = SnapshotValue
    /\ "status" \notin DOMAIN cached
    /\ fetchOut = 1

\* a step of check_for_changed_parameters called on the constructed mirror:
\* it leaves the last operation a poll and the fetch marker pending
PollStep ==
    /\ constructed
    /\ lastOp'.op = "poll"
    /\ async_changed_parameters_queue' = "pending"

\* C21: a poll reads the reply of the fetch request only when the request
\* has completed; when it has not, the poll returns having consumed nothing,
\* changed no cached value, invoked nothing and sent nothing, the request
\* still outstanding; the request a poll issues is outstanding when the poll
\* returns (the poll has not waited for its reply).
C21_PollNeverWaits ==
    [][PollStep =>
          /\ "read" \in Range(lastOp'.steps) =>
                 async_changed_parameters_queue = "ready"
          /\ async_changed_parameters_queue = "pending" =>
                 /\ lastOp'.consumed = <<>>
                 /\ lastOp'.calls = <<>>
                 /\ lastOp'.rpcs = <<>>
                 /\ cached' = cached
                 /\ fetchOut' = fetchOut
          /\ "issue_fetch" \in Range(lastOp'.steps) => fetchOut' = fetchOut + 1]_vars

\* a poll found the request unanswered and returned with nothing
C21_Witness ==
    /\ lastOp.op = "poll"
    /\ lastOp.steps = <<>>
    /\ lastOp.rpcs = <<>>
    /\ async_changed_parameters_queue = "pending"
    /\ fetchOut = 1

\* step x comes before step y in the steps q (both are in q)
Before(q, x, y) ==
    \E i, j \in DOMAIN q : q[i] = x /\ q[j] = y /\ i < j

\* C22 as claimed: a poll that consumes a batch makes the cache pass first,
\* then issues the next fetch request, then makes the callback pass.
C22_CacheThenIssueThenCallbacks ==
    (lastOp.op = "poll" /\ "read" \in Range(lastOp.steps)) =>
        /\ Before(lastOp.steps, "cache_pass", "issue_fetch")
        /\ "callback_pass" \in Range(lastOp.steps) =>
               Before(lastOp.steps, "issue_fetch", "callback_pass")

\* C22 as amended: a poll that consumes a batch issues the next fetch
\* request first, then makes the cache pass and, when that has ended, the
\* callback pass; a cache pass that raises leaves the request issued.
C22_IssueThenCacheThenCallbacks ==
    (lastOp.op = "poll" /\ "read" \in Range(lastOp.steps)) =>
        /\ Before(lastOp.steps, "read", "issue_fetch")
        /\ Before(lastOp.steps, "issue_fetch", "cache_pass")
        /\ "callback_pass" \in Range(lastOp.steps) =>
               Before(lastOp.steps, "cache_pass", "callback_pass")
        /\ "get_changed_parameters_queue" \in Range(lastOp.rpcs)
        /\ lastOp.outcome = "AttributeError" <=>
               "callback_pass" \notin Range(lastOp.steps)

\* a poll has consumed a batch that changes speed: request, cache pass,
\* callback pass
C22_Witness ==
    /\ lastOp.op = "poll"
    /\ lastOp.consumed = <<[name |-> "speed", value |-> 20]>>
    /\ lastOp.steps = <<"read", "issue_fetch", "cache_pass", "callback_pass">>
    /\ "speed" \in DOMAIN cached
    /\ cached["speed"] = 20

\* C23: every add_callback call on a handle that is not cache-backed appends
\* the handle's name to the pending registrations, whether the name is there
\* already or not, and a call on a cache-backed handle leaves the pending
\* registrations as they are.
C23_AddCallbackAppendsPending ==
    [][(/\ lastOp' # lastOp
        /\ lastOp'.op = "add_callback"
        /\ lastOp'.name \in DOMAIN handles) =>
          listeners_pending_remote_registration' =
              IF handles[lastOp'.name].use_cache
              THEN listeners_pending_remote_registration
              ELSE Append(listeners_pending_remote_registration, lastOp'.name)]_vars

\* the names waiting for their registration on the server: add_callback was
\* called on their handle, the handle is not cache-backed, and no
\* register_remote_listeners request has carried them yet
PendingRegistration ==
    {n \in requested : /\ n \in DOMAIN handles
                       /\ ~handles[n].use_cache
                       /\ n \notin carried}

\* C24: a poll that finds no registration request outstanding and names
\* waiting for their registration sends one register_remote_listeners request
\* that carries exactly these names, and none is waiting afterwards; a poll
\* that finds no name waiting, or a registration request outstanding, sends no
\* registration request; no name is carried by two requests in flight.
C24_FlushCarriesPending ==
    [][PollStep =>
          IF async_listener_registering.st = "none" /\ PendingRegistration # {}
          THEN /\ carried' = carried \cup PendingRegistration
               /\ Range(async_listener_registering'.value) = PendingRegistration
               /\ PendingRegistration' = {}
               /\ regOut' = regOut + 1
          ELSE /\ carried' = carried
               /\ regOut' = regOut]_vars

\* C25: no name add_callback handed over for registration is lost: as long
\* as the handle exists, the name either has been carried by a
\* register_remote_listeners request or is still in the pending
\* registrations, from where the next flush takes it.
C25_PendingNameNotLost ==
    \A n \in requested :
        (n \in DOMAIN handles /\ ~handles[n].use_cache) =>
            \/ n \in carried
            \/ n \in Range(listeners_pending_remote_registration)

\* C26: the two legs of a poll stall independently. A poll that finds the
\* fetch request unanswered issues no fetch request and invokes no callback,
\* yet flushes the names waiting for their registration; a poll that finds the
\* registration request unanswered issues no registration request, yet
\* consumes a ready batch and invokes the callbacks of its events.
C26_LegsStallIndependently ==
    [][PollStep =>
          /\ async_changed_parameters_queue = "pending" =>
                 /\ "get_changed_parameters_queue" \notin Range(lastOp'.rpcs)
                 /\ lastOp'.calls = <<>>
                 /\ (async_listener_registering.st = "none"
                         /\ PendingRegistration # {}) =>
                        /\ "register_remote_listeners" \in Range(lastOp'.rpcs)
                        /\ PendingRegistration' = {}
          /\ async_listener_registering.st = "pending" =>
                 /\ "register_remote_listeners" \notin Range(lastOp'.rpcs)
                 /\ async_changed_parameters_queue = "ready" =>
                        /\ "read" \in Range(lastOp'.steps)
                        /\ lastOp'.outcome = "ok" =>
                               \A i \in DOMAIN lastOp'.consumed :
                                   lastOp'.consumed[i].name \in requested =>
                                       \E j \in DOMAIN lastOp'.calls :
                                           lastOp'.calls[j].event = i]_vars

\* how often step x occurs in the steps q
Count(q, x) == Cardinality({i \in DOMAIN q : q[i] = x})

\* C29: once the mirror is constructed the fetch marker is never empty and
\* exactly one get_changed_parameters_queue request is either unanswered or
\* answered and not yet consumed; a reply that is ready leaves the marker only
\* in a poll that reads it once and issues the next request, every poll that
\* finds a reply ready consumes it, and no poll consumes anything else.
C29_OneFetchOutstanding ==
    /\ [](constructed =>
              /\ async_changed_parameters_queue \in {"pending", "ready"}
              /\ async_changed_parameters_queue = "pending" <=> fetchOut = 1
              /\ async_changed_parameters_queue = "ready" <=> fetchOut = 0)
    /\ [][/\ (/\ async_changed_parameters_queue = "ready"
              /\ async_changed_parameters_queue' # "ready") =>
                 /\ lastOp'.op = "poll"
                 /\ Count(lastOp'.steps, "read") = 1
                 /\ Count(lastOp'.steps, "issue_fetch") = 1
                 /\ async_changed_parameters_queue' = "pending"
                 /\ fetchOut' = 1
          /\ (PollStep /\ async_changed_parameters_queue = "ready") =>
                 "read" \in Range(lastOp'.steps)
          /\ (PollStep /\ "read" \in Range(lastOp'.steps)) =>
                 async_changed_parameters_queue = "ready"]_vars

\* a poll has consumed a batch and issued the next request, and the reply to
\* that request is ready
C29_Witness ==
    /\ lastOp.op = "poll"
    /\ lastOp.consumed # <<>>
    /\ Count(lastOp.steps, "issue_fetch") = 1
    /\ async_changed_parameters_queue = "ready"
    /\ fetchOut = 0

\* the batch q names a parameter no handle is bound to
NamesUnknown(q) == \E i \in DOMAIN q : q[i].name \notin DOMAIN handles

\* a poll has aborted and nothing was called on the mirror since
Aborted == lastOp.op = "poll" /\ lastOp.outcome = "AttributeError"

\* C30: a poll aborts exactly when the batch it consumes names a parameter
\* bound to no handle; it has then read the reply, issued the next request
\* and begun the cache pass, no callback was invoked, and one fetch request
\* remains outstanding; a later poll that finds the next reply ready consumes
\* it, and ends normally with the cache holding its values unless that batch
\* names an unknown parameter too.
C30_AbortedPollLeavesFetchOutstanding ==
    /\ [](/\ (lastOp.op = "poll" /\ NamesUnknown(lastOp.consumed)) => Aborted
          /\ Aborted =>
                 /\ NamesUnknown(lastOp.consumed)
                 /\ lastOp.steps = <<"read", "issue_fetch", "cache_pass">>
                 /\ lastOp.calls = <<>>
                 /\ lastOp.rpcs = <<"get_changed_parameters_queue">>
                 /\ async_changed_parameters_queue \in {"pending", "ready"}
                 /\ fetchOut = IF async_changed_parameters_queue = "pending"
                               THEN 1 ELSE 0)
    /\ [][(Aborted /\ PollStep /\ async_changed_parameters_queue = "ready") =>
              /\ "read" \in Range(lastOp'.steps)
              /\ fetchOut' = 1
              /\ lastOp'.outcome = "ok" <=> ~NamesUnknown(lastOp'.consumed)
              /\ lastOp'.outcome = "ok" =>
                     \A n \in DOMAIN handles :
                         (handles[n].use_cache /\ HasEvent(lastOp'.consumed, n)) =>
                             cached'[n] = LastValue(lastOp'.consumed, n)]_vars

\* a poll has aborted on a batch that changes speed and then names bogus; the
\* next request is out
C30_Witness ==
    /\ Aborted
    /\ lastOp.consumed = <<[name |-> "speed", value |-> 20],
                           [name |-> "bogus", value |-> 10]>>
    /\ async_changed_parameters_queue = "pending"
    /\ fetchOut = 1

(***************************************************************************)
(* Properties of the supervisor and its worker, checked under WorkerSpec.  *)
(***************************************************************************)
\* the place of the first SHUTDOWN in the Commands q, Len(q) + 1 when there is none
FirstShutdown(q) ==
    IF \E i \in DOMAIN q : q[i].tag = "SHUTDOWN"
    THEN CHOOSE i \in DOMAIN q :
            /\ q[i].tag = "SHUTDOWN"
            /\ \A j \in DOMAIN q : q[j].tag = "SHUTDOWN" => i <= j
    ELSE Len(q) + 1

\* the correlation id of the last CONTINUE_ACQUISITION among q[1..k], None
\* when there is none
RECURSIVE LastContinueUuid(_, _)
LastContinueUuid(q, k) ==
    IF k = 0 THEN None
    ELSE IF q[k].tag = "CONTINUE_ACQUISITION" THEN q[k].arg[1]
    ELSE LastContinueUuid(q, k - 1)

\* C6: the worker dispatches exactly the Commands sent before the first
\* SHUTDOWN, in order, and none sent after it; every frame was pushed before
\* the worker received the SHUTDOWN.
C6_NothingAfterShutdown ==
    LET k == FirstShutdown(sent)
    IN  /\ Len(dispatched) < k
        /\ \A i \in DOMAIN dispatched : dispatched[i] = DispatchCall(sent[i])
        /\ \A i \in DOMAIN pushed : pushed[i].nrecv < k
        /\ worker_pc = "exited" => Len(sent) - Len(to_child) = k

\* the worker has exited on SHUTDOWN and a Command sent after it is left in the pipe
C6_Witness ==
    /\ worker_pc = "exited"
    /\ to_child # <<>>
    /\ FirstShutdown(sent) < Len(sent)

\* C7: when the supervisor's process has exited, start_nginx has run exactly
\* once and one SHUTDOWN Command was sent, also when shutdown was called
\* before the exit.
C7_RestoreRunsOnce ==
    ctl_pc = "exited" =>
        /\ nginx_starts = 1
        /\ Cardinality({i \in DOMAIN sent : sent[i].tag = "SHUTDOWN"}) = 1

\* C8: last_hash is the hash of the last frame pushed (None before the first
\* push), so it changes with a push and only then, and no two frames pushed
\* one after the other carry the same hash.
C8_FramesDeduplicated ==
    /\ last_hash = (IF pushed = <<>> THEN None ELSE pushed[Len(pushed)].hash)
    /\ \A i \in DOMAIN pushed :
           /\ pushed[i].hash # None
           /\ pushed[i].frame.data = pushed[i].hash
           /\ i > 1 => pushed[i].hash # pushed[i - 1].hash

\* two frames were pushed, and the data the service holds now is the data of
\* the second: a further pull pushes nothing
C8_Witness ==
    /\ Len(pushed) = 2
    /\ worker_pc = "pull"
    /\ svc.data_hash = last_hash
    /\ ~svc.paused

\* C9 as claimed: once pause and continue(42) were sent, the next frame the
\* worker pushes carries correlation id 42.
C9_NextFrameCarries42 ==
    \A k \in DOMAIN sent :
        (/\ k > 1
         /\ sent[k - 1].tag = "PAUSE_ACQUISIITON"
         /\ sent[k] = Cmd("CONTINUE_ACQUISITION", <<42>>)) =>
            \A i \in DOMAIN pushed :
                (/\ pushed[i].nsent = k
                 /\ (i > 1 => pushed[i - 1].nsent < k)) =>
                    pushed[i].frame.uuid = 42

\* C9 as amended: every frame carries the correlation id of the last
\* continue Command the worker had received when it pushed the frame; so the
\* first frame pushed after the worker dispatched continue(42) carries 42.
C9_FrameCarriesDispatchedUuid ==
    \A i \in DOMAIN pushed :
        pushed[i].frame.uuid = LastContinueUuid(sent, pushed[i].nrecv)

\* pause and continue(42) were sent and dispatched, and a frame pushed after
\* that carries 42
C9_Witness ==
    /\ Len(sent) = 2
    /\ sent[1].tag = "PAUSE_ACQUISIITON"
    /\ sent[2] = Cmd("CONTINUE_ACQUISITION", <<42>>)
    /\ pushed # <<>>
    /\ pushed[Len(pushed)].nrecv = 2
    /\ pushed[Len(pushed)].frame.uuid = 42

\* the smaller of two numbers
Min(a, b) == IF a < b THEN a ELSE b

\* C18: a Command method call appends exactly one Command to the channel
\* and touches nothing of the worker; the worker receives the Commands in
\* the order sent and dispatches each one received before the first
\* SHUTDOWN exactly once, in that order; it leaves the drain for the pull
\* only with the channel empty, and pushes only in the pull.
C18_CommandsDispatchedInOrder ==
    /\ [](LET nrecv == Len(sent) - Len(to_child)
          IN  /\ to_child = SubSeq(sent, nrecv + 1, Len(sent))
              /\ Len(dispatched) = Min(nrecv, FirstShutdown(sent) - 1)
              /\ \A i \in DOMAIN dispatched : dispatched[i] = DispatchCall(sent[i]))
    /\ [][/\ sent' # sent =>
               /\ Len(sent') = Len(sent) + 1
               /\ SubSeq(sent', 1, Len(sent)) = sent
               /\ to_child' = Append(to_child, sent'[Len(sent')])
               /\ dispatched' = dispatched
               /\ worker_pc' = worker_pc
          /\ (worker_pc = "drain" /\ worker_pc' = "pull") => to_child = <<>>
          /\ pushed' # pushed => (worker_pc = "pull" /\ worker_pc' = "drain")]_vars

\* set_csr and then pause were sent and dispatched in that order, and the
\* worker has gone on to the pull with the channel empty
C18_Witness ==
    /\ worker_pc = "pull"
    /\ to_child = <<>>
    /\ Len(dispatched) = 2
    /\ dispatched[1].op = "set_csr"
    /\ dispatched[2].op = "pause_acquisition"

\* the acquisition-service operation each kind of Command stands for
ServiceOperation ==
    [SET_SWEEP_SPEED      |-> "set_sweep_speed",
     SET_LOCK_STATUS      |-> "set_lock_status",
     SET_CSR              |-> "set_csr",
     SET_IIR_CSR          |-> "set_iir_csr",
     PAUSE_ACQUISIITON    |-> "pause_acquisition",
     CONTINUE_ACQUISITION |-> "continue_acquisition",
     FETCH_QUADRATURES    |-> "set_fetch_additional_signals",
     SET_RAW_ACQUISITION  |-> "set_raw_acquisition",
     SET_DUAL_CHANNEL     |-> "set_dual_channel"]

\* C27: the command tags are pairwise distinct, and every Command the worker
\* has received before a SHUTDOWN has reached the service operation of its
\* own kind with the arguments the issuing method was given (pause: none);
\* no Command has been dropped or turned into another operation.
C27_CommandReachesItsOperation ==
    /\ \A a, b \in DOMAIN AcquisitionProcessSignals : a # b => ~SameSignal(a, b)
    /\ Len(dispatched) =
           Min(Len(sent) - Len(to_child), FirstShutdown(sent) - 1)
    /\ \A i \in DOMAIN dispatched :
           /\ sent[i].tag \in DOMAIN ServiceOperation
           /\ dispatched[i].op = ServiceOperation[sent[i].tag]
           /\ dispatched[i].flat = IF sent[i].tag = "PAUSE_ACQUISIITON"
                                   THEN <<>>
                                   ELSE sent[i].arg

\* set_raw_acquisition(1, 4) and set_dual_channel(1) were issued and have
\* reached their operations
C27_Witness ==
    /\ Len(dispatched) = 2
    /\ sent[1].tag = "SET_RAW_ACQUISITION"
    /\ dispatched[1] = Call("set_raw_acquisition", 1, <<1, 4>>)
    /\ sent[2].tag = "SET_DUAL_CHANNEL"
    /\ dispatched[2] = Call("set_dual_channel", 1, <<1>>)

\* a SHUTDOWN Command has been sent
ShutdownSent == FirstShutdown(sent) <= Len(sent)

\* the frames pushed when the SHUTDOWN Command had been sent
PushedAfterShutdown ==
    {i \in DOMAIN pushed : pushed[i].nsent >= FirstShutdown(sent)}

\* C28: once shutdown has sent the SHUTDOWN Command, a worker that keeps
\* running its loop stops; until then it pushes at most one more frame,
\* dispatches only Commands sent before the SHUTDOWN, and does not leave a
\* drain for another pull.
C28_ShutdownStopsWorker ==
    /\ [](/\ Cardinality(PushedAfterShutdown) <= 1
          /\ Len(dispatched) < FirstShutdown(sent)
          /\ \A i \in DOMAIN dispatched : dispatched[i] = DispatchCall(sent[i]))
    /\ [][(ShutdownSent /\ worker_pc = "drain") =>
              worker_pc' \in {"drain", "exited", "killed"}]_vars
    /\ ShutdownSent ~> (worker_pc \in {"exited", "killed"})

\* the worker was in its pull when shutdown sent the SHUTDOWN Command after a
\* pause; it pushed one more frame, dispatched the pause and stopped
C28_Witness ==
    /\ worker_pc = "exited"
    /\ ShutdownSent
    /\ Cardinality(PushedAfterShutdown) = 1
    /\ Len(dispatched) = FirstShutdown(sent) - 1
    /\ Len(dispatched) = 1

(***************************************************************************)
(* Properties of the startup and the reader thread, checked under          *)
(* ReaderSpec.                                                             *)
(***************************************************************************)
\* every message the worker has put on the frame channel, in order
AllToParent ==
    handshake \o [i \in DOMAIN received |-> received[i].msg] \o to_parent

\* C15: the supervisor's startup has returned, and the reader runs, only
\* after the blocking recv took the readiness message; the worker sends the
\* readiness message once, as its first message; so the reader never gets
\* the readiness message and the startup never takes a frame.
C15_ReadinessHandshake ==
    /\ ctl_pc \in {"running", "exited"} => handshake = <<ReadyMsg>>
    /\ reader_pc # "unstarted" => handshake = <<ReadyMsg>>
    /\ Len(handshake) <= 1
    /\ \A i \in DOMAIN received : ~received[i].msg.ready
    /\ IF worker_pc \in {"unstarted", "setup", "failed"}
       THEN AllToParent = <<>>
       ELSE /\ AllToParent # <<>>
            /\ AllToParent[1] = ReadyMsg
            /\ \A i \in DOMAIN AllToParent : i > 1 => ~AllToParent[i].ready

\* the startup has taken the readiness message and the reader has passed a
\* frame to the subscriber
C15_Witness ==
    /\ ctl_pc = "running"
    /\ handshake = <<ReadyMsg>>
    /\ received # <<>>
    /\ received[1].called
    /\ ~received[1].msg.ready

\* C16: when the worker has failed in its setup, the supervisor's startup
\* has not returned a supervisor, and it is not left waiting with nothing to
\* wait for: while it waits, the blocking recv of line 57 can return.
C16_StartupFailsFatally ==
    worker_pc = "failed" =>
        /\ ctl_pc # "running"
        /\ (ctl_pc = "waiting" => ENABLED CtlReady)

C20_ReaderEndsOnlyOnClose ==
    [][(reader_pc \in {"recv", "call"} /\ reader_pc' \notin {"recv", "call"}) =>
          /\ reader_pc' = "closed"
          /\ worker_pc = "exited"
          /\ to_parent = <<>>]_vars

\* C31: whenever the reader makes the call of line 71 for a frame, a
\* subscriber is set at that moment: the reader never calls an absent
\* subscriber, however the setting and clearing of on_new_data_received by
\* another thread interleaves with it.
C31_ReaderCallsSetSubscriber ==
    [][(reader_pc = "call" /\ reader_pc' # "call") => on_new_data_received]_vars

====
